---- MODULE Spec2Model ----
(***************************************************************************)
(* A model of src/server.py: the ResponseBuilder, the request parser and   *)
(* handlers of HTTPServer, and the thread-per-connection dispatcher.       *)
(*                                                                         *)
(* Text (Python str) and byte strings (Python bytes) are sequences of      *)
(* one-symbol strings.  A Python value is a record [t, v]: t is its type   *)
(* ("str", "bytes", "None", "datetime") and v its symbols.                 *)
(***************************************************************************)
EXTENDS Integers, Sequences, FiniteSets, TLC

VARIABLES fs, listener, conns, stdin, builder, built, request, result

vars == <<fs, listener, conns, stdin, builder, built, request, result>>

(***************************************************************************)
(* Bounds of the model.                                                    *)
(***************************************************************************)
MaxHeaders == 2
MaxConns == 2

(***************************************************************************)
(* Python values and call outcomes.                                        *)
(***************************************************************************)
StrV(s) == [t |-> "str", v |-> s]
BytesV(s) == [t |-> "bytes", v |-> s]
TimeV(s) == [t |-> "datetime", v |-> s]
NoneV == [t |-> "None", v |-> <<>>]

Ok(x) == [ok |-> TRUE, v |-> x, exc |-> ""]
Raise(e) == [ok |-> FALSE, v |-> NoneV, exc |-> e]

(***************************************************************************)
(* Sequence helpers shared by the string operations.                       *)
(***************************************************************************)
\* The concatenation of the sequences ss[lo..hi], by halves
RECURSIVE FlatRange(_, _, _)
FlatRange(ss, lo, hi) ==
    IF lo > hi THEN <<>>
    ELSE IF lo = hi THEN ss[lo]
    ELSE LET mid == (lo + hi) \div 2
         IN FlatRange(ss, lo, mid) \o FlatRange(ss, mid + 1, hi)
Flat(ss) == FlatRange(ss, 1, Len(ss))

\* The sum of the numbers ns[lo..hi], by halves
RECURSIVE SumRange(_, _, _)
SumRange(ns, lo, hi) ==
    IF lo > hi THEN 0
    ELSE IF lo = hi THEN ns[lo]
    ELSE LET mid == (lo + hi) \div 2
         IN SumRange(ns, lo, mid) + SumRange(ns, mid + 1, hi)
SumSeq(ns) == SumRange(ns, 1, Len(ns))

Min(S) == CHOOSE x \in S : \A y \in S : x <= y

\* s[i..] starts with pat
StartsAt(s, i, pat) ==
    /\ i + Len(pat) - 1 <= Len(s)
    /\ \A k \in 1..Len(pat) : s[i + k - 1] = pat[k]

\* str.find(pat) from position i (1-based); 0 when absent
FindFrom(s, pat, i) ==
    LET hits == {k \in i..(Len(s) - Len(pat) + 1) : StartsAt(s, k, pat)}
    IN IF hits = {} THEN 0 ELSE Min(hits)

\* str.split(sep) for a non-empty separator: every piece, empty ones included
RECURSIVE split(_, _)
split(s, sep) ==
    LET i == FindFrom(s, sep, 1)
    IN IF i = 0 THEN <<s>>
       ELSE <<SubSeq(s, 1, i - 1)>> \o split(SubSeq(s, i + Len(sep), Len(s)), sep)

\* sep.join(parts)
RECURSIVE join(_, _)
join(sep, parts) ==
    IF parts = <<>> THEN <<>>
    ELSE IF Len(parts) = 1 THEN parts[1]
    ELSE parts[1] \o sep \o join(sep, Tail(parts))

\* str.replace(a, b) for a one-symbol a
replace(s, a, b) == [i \in 1..Len(s) |-> IF s[i] = a THEN b ELSE s[i]]

(***************************************************************************)
(* Symbols.  NEWLINE is the source's name for CRLF.                        *)
(***************************************************************************)
NEWLINE == <<"\r", "\n">>
Whitespace == {" ", "\t", "\n", "\r"}

\* The literal pieces of the HTML page of post_request, each one symbol
\* whose width is the number of characters (and bytes) of the literal.
TemplateLen ==
    [x \in {"T0", "T1", "T2", "T3", "T4", "T5", "T6", "T7", "T8"} |->
        CASE x = "T0" -> 377 [] x = "T1" -> 142 [] x = "T2" -> 144
          [] x = "T3" -> 142 [] x = "T4" -> 144 [] x = "T5" -> 147
          [] x = "T6" -> 111 [] x = "T7" -> 110 [] x = "T8" -> 128]

\* Number of characters, or of bytes, one symbol stands for
Width(x) == IF x \in DOMAIN TemplateLen THEN TemplateLen[x] ELSE 1

\* len(x) of a str or of a bytes value
len(x) == SumSeq([i \in 1..Len(x) |-> Width(x[i])])

\* str.encode("utf-8"): U+E9 is the one two-byte character of the model
Utf8(c) ==
    IF c = "U+E9" THEN <<"xC3", "xA9">>
    ELSE IF c = "U+FFFD" THEN <<"xEF", "xBF", "xBD">>
    ELSE <<c>>
encode(s) == Flat([i \in 1..Len(s) |-> Utf8(s[i])])

\* bytes.decode("utf-8"), strict: xC3 xA9 is U+E9; a lone xC3, xA9 or xFF
\* is invalid
Kept(x) == x # "DROP"

\* The characters of bs: xC3 xA9 is one character, a byte that is not part
\* of a character is U+FFFD
DecodeChars(bs) ==
    SelectSeq([i \in 1..Len(bs) |->
                 IF bs[i] = "xC3"
                 THEN IF i < Len(bs) /\ bs[i + 1] = "xA9"
                      THEN "U+E9" ELSE "U+FFFD"
                 ELSE IF bs[i] = "xA9"
                 THEN IF i > 1 /\ bs[i - 1] = "xC3"
                      THEN "DROP" ELSE "U+FFFD"
                 ELSE IF bs[i] = "xFF" THEN "U+FFFD"
                 ELSE bs[i]], Kept)

decode(bs) ==
    LET cs == DecodeChars(bs)
    IN IF \E i \in 1..Len(cs) : cs[i] = "U+FFFD"
       THEN Raise("UnicodeDecodeError") ELSE Ok(cs)

\* str(n) for n >= 0
RECURSIVE str(_)
str(n) ==
    LET d == <<"0", "1", "2", "3", "4", "5", "6", "7", "8", "9">>
    IN IF n < 10 THEN <<d[n + 1]>> ELSE str(n \div 10) \o <<d[(n % 10) + 1]>>

\* f"{x}": the text an f-string puts for a value
Format(x) == IF x.t = "None" THEN <<"N", "o", "n", "e">> ELSE x.v

(***************************************************************************)
(* Literals of the source.                                                 *)
(***************************************************************************)
sHTTP11 == <<"H", "T", "T", "P", "/", "1", ".", "1">>
sConnection == <<"C", "o", "n", "n", "e", "c", "t", "i", "o", "n">>
sClose == <<"c", "l", "o", "s", "e">>
sAllow == <<"A", "l", "l", "o", "w">>
sDate == <<"D", "a", "t", "e">>
sContentType == <<"C", "o", "n", "t", "e", "n", "t", "-", "T", "y", "p", "e">>
sContentLength ==
    <<"C", "o", "n", "t", "e", "n", "t", "-", "L", "e", "n", "g", "t", "h">>
sServer == <<"S", "e", "r", "v", "e", "r">>
sJacks ==
    <<"J", "a", "c", "k", "s", " ", "H", "T", "T", "P", " ",
      "s", "e", "r", "v", "e", "r">>
sTextPlain == <<"t", "e", "x", "t", "/", "p", "l", "a", "i", "n">>
sTextHtml == <<"t", "e", "x", "t", "/", "h", "t", "m", "l">>
sOK == <<"O", "K">>
s200 == <<"2", "0", "0">>
s403 == <<"4", "0", "3">>
s404 == <<"4", "0", "4">>
s405 == <<"4", "0", "5">>

(***************************************************************************)
(* ResponseBuilder.  A builder is a record of its four fields.             *)
(***************************************************************************)
ResponseBuilder ==
    [headers |-> <<>>, status |-> NoneV, content |-> StrV(<<>>),
     content_type |-> NoneV]

\* add_header keeping one line per name, a later value replacing the earlier
add_header_overwriting(b, headerKey, headerValue) ==
    LET line == Format(headerKey) \o <<":", " ">> \o Format(headerValue)
        same == {i \in 1..Len(b.headers) :
                    StartsAt(b.headers[i], 1, Format(headerKey) \o <<":", " ">>)}
    IN IF same = {} THEN [b EXCEPT !.headers = Append(@, line)]
       ELSE [b EXCEPT !.headers =
                [i \in 1..Len(@) |-> IF i \in same THEN line ELSE @[i]]]

\* add_header: one line  f"{headerKey}: {headerValue}"
add_header(b, headerKey, headerValue) ==
    [b EXCEPT !.headers =
        Append(@, Format(headerKey) \o <<":", " ">> \o Format(headerValue))]

set_status(b, statusCode, statusMessage) ==
    [b EXCEPT !.status =
        StrV(sHTTP11 \o <<" ">> \o statusCode \o <<" ">> \o statusMessage)]

\* set_content: bytes are kept, text is encoded
set_content(b, content) ==
    [b EXCEPT !.content =
        IF content.t = "bytes" THEN content ELSE BytesV(encode(content.v))]

\* The four header lines build appends: the names it passes end in ": ".
\* self.content == "" holds of the initial str "" only: b"" is not "".
BuildHeaders(b, now) ==
    LET b1 == add_header(b, StrV(sDate \o <<":", " ">>), now)
        empty == b.content = StrV(<<>>)
        content_type == IF empty THEN StrV(sTextPlain) ELSE b.content_type
        content_length == IF empty THEN 0 ELSE len(b.content.v)
        b2 == add_header(b1, StrV(sContentType \o <<":", " ">>), content_type)
        b3 == add_header(b2, StrV(sContentLength \o <<":", " ">>),
                         StrV(str(content_length)))
    IN add_header(b3, StrV(sServer \o <<":", " ">>), StrV(sJacks))

\* build: the bytes of the response.  A status that was never set is None,
\* and None + NEWLINE raises TypeError.
build(b, now) ==
    LET hb == BuildHeaders(b, now)
        headers == join(NEWLINE, hb.headers) \o NEWLINE
    IN IF b.status.t = "None" THEN Raise("TypeError")
       ELSE IF b.content.t = "bytes"
            THEN Ok(BytesV(encode(b.status.v \o NEWLINE \o headers \o NEWLINE)
                           \o b.content.v \o encode(NEWLINE)))
            ELSE Ok(BytesV(encode(b.status.v \o NEWLINE \o headers \o NEWLINE
                                  \o b.content.v \o NEWLINE)))

(***************************************************************************)
(* The file system: a function from the paths that exist to their files.   *)
(* A file is [kind, mode, data]: kind is "file" or "dir", mode the nine     *)
(* permission bits of st_mode, data the bytes of a regular file.           *)
(***************************************************************************)
File(mode, data) == [kind |-> "file", mode |-> mode, data |-> data]
Dir(mode) == [kind |-> "dir", mode |-> mode, data |-> <<>>]

\* Text mode of open(): universal newlines, "\r\n" and "\r" are read as "\n"
Translate(s) ==
    SelectSeq([i \in 1..Len(s) |->
                 IF s[i] = "\r"
                 THEN IF i < Len(s) /\ s[i + 1] = "\n" THEN "DROP" ELSE "\n"
                 ELSE s[i]], Kept)

\* with open(path, mode) as f: f.read()
OpenRead(f, path, mode) ==
    IF path \notin DOMAIN f THEN Raise("FileNotFoundError")
    ELSE IF f[path].kind = "dir" THEN Raise("IsADirectoryError")
    ELSE IF mode = "rb" THEN Ok(BytesV(f[path].data))
    ELSE LET d == decode(f[path].data)
         IN IF d.ok THEN Ok(StrV(Translate(d.v))) ELSE d

S_IROTH == 4

\* The test made on the group's read bit instead
has_permission_group(f, file_name) == ((f[file_name].mode \div 32) % 2) * 32 > 0

\* getattr(stat, "S_IROTH") & stmode > 0
has_permission_other(f, file_name) ==
    ((f[file_name].mode \div S_IROTH) % 2) * S_IROTH > 0

sJpg == <<"j", "p", "g">>
sJpeg == <<"j", "p", "e", "g">>
sPng == <<"p", "n", "g">>
sMp3 == <<"m", "p", "3">>
sHtml == <<"h", "t", "m", "l">>
sCss == <<"c", "s", "s">>
sJs == <<"j", "s">>

binary_type_files == {sJpg, sJpeg, sPng, sMp3}

should_return_binary(file_extension) == file_extension \in binary_type_files

mime_types ==
    [x \in {sHtml, sCss, sJpeg, sJpg, sJs, sPng, sMp3} |->
        CASE x = sHtml -> sTextHtml
          [] x = sCss -> <<"t", "e", "x", "t", "/", "c", "s", "s">>
          [] x = sJpeg -> <<"i", "m", "a", "g", "e", "/", "j", "p", "e", "g">>
          [] x = sJpg -> <<"i", "m", "a", "g", "e", "/", "j", "p", "g">>
          [] x = sJs ->
               <<"t", "e", "x", "t", "/",
                 "j", "a", "v", "a", "s", "c", "r", "i", "p", "t">>
          [] x = sPng -> <<"i", "m", "a", "g", "e", "/", "p", "n", "g">>
          [] x = sMp3 -> <<"a", "u", "d", "i", "o", "/", "m", "p", "e", "g">>]

\* mime_types[file_extension] if file_extension is not None else "text/plain"
get_file_mime_type(file_extension) ==
    IF file_extension.t # "None"
    THEN IF file_extension.v \in DOMAIN mime_types
         THEN Ok(StrV(mime_types[file_extension.v]))
         ELSE Raise("KeyError")
    ELSE Ok(StrV(sTextPlain))

(***************************************************************************)
(* The handlers.  A handler's outcome is [ret, opened, message]: ret is    *)
(* what the call returns or raises, opened lists the paths it opened for   *)
(* reading, message is the builder it built its response from.             *)
(***************************************************************************)
NoMessage ==
    [headers |-> <<>>, status |-> NoneV, content |-> NoneV,
     content_type |-> NoneV]

Outcome(ret, opened) == [ret |-> ret, opened |-> opened, message |-> NoMessage]

\* return builder.build()
Built(b, now, opened) ==
    [ret |-> build(b, now), opened |-> opened, message |-> b]

s404html == <<".", "/", "4", "0", "4", ".", "h", "t", "m", "l">>
s403html == <<".", "/", "4", "0", "3", ".", "h", "t", "m", "l">>
sNotFound ==
    <<"R", "E", "S", "O", "U", "R", "C", "E", " ", "N", "O", "T", " ",
      "F", "O", "U", "N", "D">>
sForbidden ==
    <<"R", "E", "S", "O", "U", "R", "C", "E", " ",
      "F", "O", "R", "B", "I", "D", "D", "E", "N">>
sNotAllowed ==
    <<"M", "E", "T", "H", "O", "D", " ", "N", "O", "T", " ",
      "A", "L", "L", "O", "W", "E", "D">>
sGET == <<"G", "E", "T">>
sPOST == <<"P", "O", "S", "T">>

\* The builder of an error page: status, Connection: close, the page read
\* in text mode, content type text/html
ErrorPage(f, code, reason, error_file, now) ==
    LET b1 == set_status(ResponseBuilder, code, reason)
        b2 == add_header(b1, StrV(sConnection), StrV(sClose))
        page == OpenRead(f, error_file, "r")
    IN IF ~page.ok THEN Outcome(page, <<error_file>>)
       ELSE Built([set_content(b2, page.v)
                      EXCEPT !.content_type = StrV(sTextHtml)],
                  now, <<error_file>>)

\* The not-found response built from the other error page
resource_not_found_other_page(f, now) ==
    ErrorPage(f, s404, sNotFound, s403html, now)

resource_not_found(f, now) == ErrorPage(f, s404, sNotFound, s404html, now)

resource_forbidden(f, now) == ErrorPage(f, s403, sForbidden, s403html, now)

method_not_allowed(now) ==
    LET b1 == set_status(ResponseBuilder, s405, sNotAllowed)
        allowed == join(<<",", " ">>, <<sGET, sPOST>>)
        b2 == add_header(b1, StrV(sAllow), StrV(allowed))
        b3 == add_header(b2, StrV(sConnection), StrV(sClose))
    IN Built(b3, now, <<>>)

\* file_extension of get_request: "" when the path has no ".", else the
\* third "."-separated piece of "./" + target, which may not exist
FileExtension(requested_file) ==
    IF FindFrom(requested_file, <<".">>, 1) # 0
    THEN LET parts == split(requested_file, <<".">>)
         IN IF Len(parts) >= 3 THEN Ok(parts[3]) ELSE Raise("IndexError")
    ELSE Ok(<<>>)

get_request(f, target, data, now) ==
    LET requested_file == <<".", "/">> \o target
    IN IF requested_file \notin DOMAIN f THEN resource_not_found(f, now)
       ELSE IF ~has_permission_other(f, requested_file)
            THEN resource_forbidden(f, now)
       ELSE LET ext == FileExtension(requested_file)
            IN IF ~ext.ok THEN Outcome(ext, <<>>)
               ELSE
    LET mode == IF should_return_binary(ext.v) THEN "rb" ELSE "r"
        response_body == OpenRead(f, requested_file, mode)
        b1 == set_status(ResponseBuilder, s200, sOK)
        b2 == add_header(b1, StrV(sConnection), StrV(sClose))
        mime == get_file_mime_type(StrV(ext.v))
    IN IF ~response_body.ok THEN Outcome(response_body, <<requested_file>>)
       ELSE IF ~mime.ok THEN Outcome(mime, <<requested_file>>)
       ELSE Built([set_content(b2, response_body.v)
                      EXCEPT !.content_type = mime.v],
                  now, <<requested_file>>)

(***************************************************************************)
(* urllib.parse.unquote: every "%" followed by two hexadecimal digits is   *)
(* replaced by the byte they name, and the bytes are decoded as UTF-8 with *)
(* errors="replace".  HexByte lists the escapes the model's inputs use; a  *)
(* "%" not followed by two hexadecimal digits is left as it is.            *)
(***************************************************************************)
HexByte ==
    [x \in {<<"2", "6">>, <<"3", "D">>, <<"2", "B">>, <<"2", "0">>,
            <<"2", "5">>, <<"C", "3">>, <<"A", "9">>} |->
        CASE x = <<"2", "6">> -> "&"
          [] x = <<"3", "D">> -> "="
          [] x = <<"2", "B">> -> "+"
          [] x = <<"2", "0">> -> " "
          [] x = <<"2", "5">> -> "%"
          [] x = <<"C", "3">> -> "xC3"
          [] x = <<"A", "9">> -> "xA9"]

\* An escape starts at i.  Two escapes never overlap: the two symbols after
\* a "%" that starts one are hexadecimal digits.
EscapeAt(s, i) ==
    i >= 1 /\ i + 2 <= Len(s) /\ s[i] = "%"
    /\ <<s[i + 1], s[i + 2]>> \in DOMAIN HexByte

UnquoteToBytes(s) ==
    Flat([i \in 1..Len(s) |->
            IF EscapeAt(s, i) THEN <<HexByte[<<s[i + 1], s[i + 2]>>]>>
            ELSE IF EscapeAt(s, i - 1) \/ EscapeAt(s, i - 2) THEN <<>>
            ELSE Utf8(s[i])])

\* bytes.decode("utf-8", "replace"): an invalid byte becomes U+FFFD
unquote(s) == DecodeChars(UnquoteToBytes(s))

\* formatString: the piece after the first "=", with "+" replaced by " "
formatString(stringToParse) ==
    LET splitString == split(stringToParse, <<"=">>)
    IN IF Len(splitString) < 2 THEN Raise("IndexError")
       ELSE Ok(replace(splitString[2], "+", " "))

\* post_request: the last line, unquoted as a whole, split on "&"; the
\* first eight pieces go through formatString in order
post_request(f, requested_file, data, now) ==
    LET usefulStrings == split(unquote(data[Len(data)]), <<"&">>)
        n == Len(usefulStrings)
        vals == [i \in 1..8 |->
                    IF i > n THEN Raise("IndexError")
                    ELSE formatString(usefulStrings[i])]
        bad == {i \in 1..8 : ~vals[i].ok}
        html == <<"T0">> \o vals[1].v \o <<"T1">> \o vals[2].v
                \o <<"T2">> \o vals[3].v \o <<"T3">> \o vals[4].v
                \o <<"T4">> \o vals[5].v \o <<"T5">> \o vals[6].v
                \o <<"T6">> \o vals[7].v \o <<"T7">> \o vals[8].v
                \o <<"T8">>
        b1 == set_status(ResponseBuilder, s200, sOK)
        b2 == add_header(b1, StrV(sConnection), StrV(sClose))
    IN IF bad # {} THEN Outcome(Raise("IndexError"), <<>>)
       ELSE Built([set_content(b2, StrV(html))
                      EXCEPT !.content_type = StrV(sTextHtml)],
                  now, <<>>)

(***************************************************************************)
(* The request parser.                                                     *)
(***************************************************************************)
\* str.strip()
RECURSIVE lstrip(_)
lstrip(s) ==
    IF s # <<>> /\ s[1] \in Whitespace THEN lstrip(Tail(s)) ELSE s

RECURSIVE rstrip(_)
rstrip(s) ==
    IF s # <<>> /\ s[Len(s)] \in Whitespace
    THEN rstrip(SubSeq(s, 1, Len(s) - 1)) ELSE s

strip(s) == rstrip(lstrip(s))

\* str.split() without arguments: the words between runs of whitespace
WordEnd(s, i) ==
    Min({k \in i..(Len(s) + 1) : k > Len(s) \/ s[k] \in Whitespace})

RECURSIVE Words(_)
Words(s) ==
    LET t == lstrip(s)
        e == WordEnd(t, 1)
    IN IF t = <<>> THEN <<>>
       ELSE <<SubSeq(t, 1, e - 1)>> \o Words(SubSeq(t, e, Len(t)))

\* process_response: None for a request line without words; otherwise the
\* second word without its first character goes to the method's handler
process_response(f, req, now) ==
    LET formatted_data == split(strip(req), NEWLINE)
        request_words == Words(formatted_data[1])
    IN IF Len(request_words) = 0 THEN Outcome(Ok(NoneV), <<>>)
       ELSE IF Len(request_words) < 2 THEN Outcome(Raise("IndexError"), <<>>)
       ELSE LET requested_file == Tail(request_words[2])
            IN IF request_words[1] = sGET
               THEN get_request(f, requested_file, formatted_data, now)
               ELSE IF request_words[1] = sPOST
               THEN post_request(f, requested_file, formatted_data, now)
               ELSE method_not_allowed(now)

(***************************************************************************)
(* Inputs: the clock readings, the files and the requests the              *)
(* specifications draw from.                                               *)
(***************************************************************************)
Clock == {TimeV(<<"0", "2", ":", "1", "0">>), TimeV(<<"2", "3", ":", "5", "9">>)}

sImagePng == <<"i", "m", "a", "g", "e", "/", "p", "n", "g">>

StatusChoices == {<<s200, sOK>>, <<s404, sNotFound>>}
HeaderChoices ==
    {<<sConnection, sClose>>, <<sAllow, join(<<",", " ">>, <<sGET, sPOST>>)>>,
     <<sAllow, sGET>>}
ContentChoices ==
    {StrV(<<>>), StrV(<<"h", "i">>), StrV(<<"U+E9", "!">>), BytesV(<<>>),
     BytesV(<<"xFF", "a", "b">>), StrV(<<"T0", "a", "T8">>)}
TypeChoices == {StrV(sTextHtml), StrV(sImagePng)}

\* File names under the serving root
nIndex == <<"i", "n", "d", "e", "x", ".", "h", "t", "m", "l">>
nReadme == <<"R", "E", "A", "D", "M", "E">>
nTxt == <<"a", ".", "t", "x", "t">>
nTwoDots == <<"a", ".", "b", ".", "h", "t", "m", "l">>
nDotDir == <<"d", ".", "x", "/", "f", ".", "h", "t", "m", "l">>
nPng == <<"p", ".", "p", "n", "g">>
nHtmlTxt == <<"a", ".", "h", "t", "m", "l", ".", "t", "x", "t">>
nHtmlPng == <<"a", ".", "h", "t", "m", "l", ".", "p", "n", "g">>
nOutside == <<".", ".", "/", "x", ".", "h", "t", "m", "l">>
Names ==
    {nIndex, nReadme, nTxt, nTwoDots, nDotDir, nPng, nHtmlTxt, nHtmlPng,
     nOutside}

\* File contents: empty, text, text with CRLF and a lone CR, bytes that are
\* not UTF-8, a two-byte character
Contents ==
    {<<>>, <<"h", "i">>, <<"a", "\r", "\n", "b", "\r">>, <<"xFF", "a">>,
     <<"xC3", "xA9">>}

\* The two error pages: text, with LF or with CRLF line ends
Pages404 == {<<"n", "f", "\n">>, <<"n", "\r", "\n", "xC3", "xA9", "\r">>}
Pages403 == {<<"n", "o", "\n">>, <<"n", "\r", "\n", "o">>}

Root == <<".", "/">>

\* A serving root holding the two error pages and the files of `files`, a
\* function from names to files
ServingRoot(p404, p403, files) ==
    [p \in {Root, s404html, s403html} \cup {Root \o n : n \in DOMAIN files} |->
        IF p = Root THEN Dir(493)
        ELSE IF p = s404html THEN File(420, p404)
        ELSE IF p = s403html THEN File(420, p403)
        ELSE files[SubSeq(p, 3, Len(p))]]

NoFiles == [n \in {} |-> File(0, <<>>)]
OneFile(n, file) == [x \in {n} |-> file]

\* Request texts
sHost == <<"H", "o", "s", "t", ":", " ", "a">>
sPUT == <<"P", "U", "T">>
sLowerGet == <<"g", "e", "t">>
sFormTarget == <<"/", "f", "o", "r", "m">>

RequestLine(method, target) ==
    method \o <<" ">> \o target \o <<" ">> \o sHTTP11

Request(line, body) ==
    line \o NEWLINE \o sHost \o NEWLINE \o NEWLINE \o body

GetRequest(name) == Request(RequestLine(sGET, <<"/">> \o name), <<>>)

\* The eight form fields, in the order of the page
FieldNames ==
    <<<<"e", "v", "e", "n", "t">>, <<"d", "a", "y">>,
      <<"s", "t", "a", "r", "t">>, <<"e", "n", "d">>,
      <<"p", "h", "o", "n", "e">>,
      <<"l", "o", "c", "a", "t", "i", "o", "n">>,
      <<"i", "n", "f", "o">>, <<"u", "r", "l">>>>
Letters == <<"A", "B", "C", "D", "E", "F", "G", "H">>

\* The urlencoded value of field i, by kind
PlainKinds == {"word", "plus"}
SpecialKinds == {"amp", "eq", "e9", "empty"}
FieldValue(i, kind) ==
    CASE kind = "word" -> <<Letters[i]>>
      [] kind = "plus" -> <<Letters[i], "+", Letters[i]>>
      [] kind = "amp" -> <<Letters[i], "%", "2", "6", Letters[i]>>
      [] kind = "eq" -> <<Letters[i], "%", "3", "D", Letters[i]>>
      [] kind = "e9" -> <<"%", "C", "3", "%", "A", "9">>
      [] kind = "empty" -> <<>>

\* event=..&day=..&..: the first n fields of the form with kinds k
FormBody(k, n) ==
    join(<<"&">>, [i \in 1..n |-> FieldNames[i] \o <<"=">> \o FieldValue(i, k[i])])

AllWords == [i \in 1..8 |-> "word"]
FormKinds ==
    [1..8 -> PlainKinds]
    \cup {[AllWords EXCEPT ![i] = k] : i \in 1..8, k \in SpecialKinds}

PostRequest(body) == Request(RequestLine(sPOST, sFormTarget), body)

WellFormedPosts == {PostRequest(FormBody(k, 8)) : k \in FormKinds}
ShortPosts ==
    {PostRequest(FormBody(AllWords, n)) : n \in 0..7}
    \cup {PostRequest(FormBody(AllWords, 2) \o <<"&">> \o FieldNames[3]
                      \o <<"&">> \o SubSeq(FormBody(AllWords, 8), 23,
                                            Len(FormBody(AllWords, 8))))}
OtherRequests ==
    {Request(RequestLine(sPUT, <<"/">> \o nIndex), <<>>),
     Request(RequestLine(sLowerGet, <<"/">> \o nIndex), <<>>),
     Request(sPUT, <<>>),
     Request(sGET, <<>>),
     Request(RequestLine(sGET, nIndex), <<>>),
     Request(RequestLine(sGET, <<"/">>), <<>>),
     <<>>,
     NEWLINE \o NEWLINE}

\* Every permission mode, and the two the file families use
Modes == 0..511
SomeModes == {420, 416}

\* The scenarios of one request: a serving root and a request text
GetScenarios ==
    {<<ServingRoot(p404, p403, OneFile(n, File(m, d))), GetRequest(n)>> :
        p404 \in Pages404, p403 \in Pages403,
        n \in Names, m \in SomeModes, d \in Contents}
    \cup {<<ServingRoot(p404, p403, NoFiles), GetRequest(n)>> :
            p404 \in Pages404, p403 \in Pages403, n \in Names}
    \cup {<<ServingRoot(<<"n", "f", "\n">>, p403,
                        OneFile(nIndex, File(m, <<"h", "i">>))),
            GetRequest(nIndex)>> : m \in Modes, p403 \in Pages403}

DefaultRoot ==
    ServingRoot(<<"n", "f", "\n">>, <<"n", "o", "\n">>,
                OneFile(nIndex, File(420, <<"h", "i">>)))

Scenarios ==
    GetScenarios
    \cup {<<DefaultRoot, r>> :
            r \in WellFormedPosts \cup ShortPosts \cup OtherRequests}

(***************************************************************************)
(* State of the variables a specification does not use.                    *)
(***************************************************************************)
NotBuilt == Raise("not built")
NotRun == [ran |-> FALSE, out |-> Outcome(Raise("not run"), <<>>)]
FreeConn ==
    [pc |-> "free", data |-> <<>>, response |-> NoneV, sent |-> 0,
     sock |-> "none", wr |-> "none", exc |-> "", closer |-> ""]

IdleBuilder == builder = ResponseBuilder /\ built = NotBuilt
IdleRequest == request = <<>> /\ result = NotRun
IdleServer ==
    /\ listener = "down"
    /\ conns = [c \in 1..MaxConns |-> FreeConn]
    /\ stdin = "open"

(***************************************************************************)
(* SpecBuild: one ResponseBuilder, filled and built once, as each handler  *)
(* does.                                                                   *)
(***************************************************************************)
InitBuild == fs = DefaultRoot /\ IdleServer /\ IdleRequest /\ IdleBuilder

SetStatus ==
    /\ built = NotBuilt
    /\ \E st \in StatusChoices : builder' = set_status(builder, st[1], st[2])
    /\ UNCHANGED <<fs, listener, conns, stdin, built, request, result>>

AddHeader ==
    /\ built = NotBuilt
    /\ Len(builder.headers) < MaxHeaders
    /\ \E h \in HeaderChoices :
          builder' = add_header(builder, StrV(h[1]), StrV(h[2]))
    /\ UNCHANGED <<fs, listener, conns, stdin, built, request, result>>

SetContent ==
    /\ built = NotBuilt
    /\ \E c \in ContentChoices : builder' = set_content(builder, c)
    /\ UNCHANGED <<fs, listener, conns, stdin, built, request, result>>

SetContentType ==
    /\ built = NotBuilt
    /\ \E ct \in TypeChoices : builder' = [builder EXCEPT !.content_type = ct]
    /\ UNCHANGED <<fs, listener, conns, stdin, built, request, result>>

\* build appends its four headers to self.headers before it joins them
Build ==
    /\ built = NotBuilt
    /\ \E now \in Clock :
          /\ built' = build(builder, now)
          /\ builder' = BuildHeaders(builder, now)
    /\ UNCHANGED <<fs, listener, conns, stdin, request, result>>

NextBuild == SetStatus \/ AddHeader \/ SetContent \/ SetContentType \/ Build

SpecBuild == InitBuild /\ [][NextBuild]_vars

(***************************************************************************)
(* SpecRequest: one call of process_response on one request text.          *)
(***************************************************************************)
InitRequest ==
    /\ \E sc \in Scenarios : fs = sc[1] /\ request = sc[2]
    /\ result = NotRun
    /\ IdleServer /\ IdleBuilder

Handle ==
    /\ ~result.ran
    /\ \E now \in Clock :
          result' = [ran |-> TRUE, out |-> process_response(fs, request, now)]
    /\ UNCHANGED <<fs, listener, conns, stdin, builder, built, request>>

NextRequest == Handle

SpecRequest == InitRequest /\ [][NextRequest]_vars

(***************************************************************************)
(* Spec: the dispatcher.  The listener loops in accept(): it accepts a     *)
(* connection, then starts a thread that runs accept_request on it.  A     *)
(* unit's pc is the call of accept_request it is about to make.            *)
(***************************************************************************)
BUFSIZE == 4096

ServerRoot ==
    ServingRoot(<<"n", "f", "\n">>, <<"n", "o", "\n">>,
                [n \in {nIndex, nReadme, nPng} |->
                    IF n = nIndex THEN File(420, <<"h", "i">>)
                    ELSE IF n = nReadme THEN File(420, <<"r">>)
                    ELSE File(420, <<"xFF", "\r", "\n">>)])

\* What a client sends: two requests served with 200, one whose handling
\* raises, no bytes at all, and bytes that are not UTF-8
ServerData ==
    {encode(GetRequest(nIndex)), encode(GetRequest(nPng)),
     encode(GetRequest(nReadme)), <<>>, <<"xFF">>}

ServerNow == TimeV(<<"0", "2", ":", "1", "0">>)

Units == 1..MaxConns

Init ==
    /\ fs = ServerRoot
    /\ listener = "accept"
    /\ conns = [c \in Units |-> FreeConn]
    /\ stdin = "open"
    /\ IdleBuilder /\ IdleRequest

\* except Exception as e: the unit goes to its handler
Raised(c, e) == [conns EXCEPT ![c].pc = "except", ![c].exc = e]

\* accept() joining the thread of every connection before it accepts the
\* next one
AcceptAfterJoin(c) ==
    /\ listener = "accept"
    /\ conns[c].pc = "free"
    /\ \A d \in Units : d < c => conns[d].pc \in {"done", "exited"}
    /\ \E data \in ServerData :
          conns' = [conns EXCEPT ![c] =
                      [FreeConn EXCEPT !.pc = "accepted", !.data = data,
                                       !.sock = "open", !.wr = "open"]]
    /\ listener' = "spawn"
    /\ UNCHANGED <<fs, stdin, builder, built, request, result>>

\* (client, address) = self.sock.accept(): connections are numbered in the
\* order they are accepted
Accept(c) ==
    /\ listener = "accept"
    /\ conns[c].pc = "free"
    /\ \A d \in Units : d < c => conns[d].pc # "free"
    /\ \E data \in ServerData :
          conns' = [conns EXCEPT ![c] =
                      [FreeConn EXCEPT !.pc = "accepted", !.data = data,
                                       !.sock = "open", !.wr = "open"]]
    /\ listener' = "spawn"
    /\ UNCHANGED <<fs, stdin, builder, built, request, result>>

\* th = Thread(target=self.accept_request, ...); th.start()
Spawn(c) ==
    /\ listener = "spawn"
    /\ conns[c].pc = "accepted"
    /\ conns' = [conns EXCEPT ![c].pc = "recv"]
    /\ listener' = "accept"
    /\ UNCHANGED <<fs, stdin, builder, built, request, result>>

\* sock.accept() or Thread.start() raises: accept() has no handler, the
\* exception leaves the while loop
ListenerFails ==
    /\ listener \in {"accept", "spawn"}
    /\ listener' = "failed"
    /\ UNCHANGED <<fs, conns, stdin, builder, built, request, result>>

\* data = client_sock.recv(4096)
Recv(c) ==
    /\ conns[c].pc = "recv"
    /\ \/ conns' = [conns EXCEPT
                      ![c].pc = "process",
                      ![c].data = SubSeq(@, 1, IF Len(@) < BUFSIZE
                                               THEN Len(@) ELSE BUFSIZE)]
       \/ conns' = Raised(c, "ConnectionResetError")
    /\ UNCHANGED <<fs, listener, stdin, builder, built, request, result>>

\* A request buffer shared by the units instead of the local req: the
\* unit processes what some unit that has received last left in it
ProcessSharedRequest(c) ==
    /\ conns[c].pc = "process"
    /\ \E d \in {u \in Units : conns[u].pc = "process"} :
          LET req == decode(conns[d].data)
              out == process_response(fs, req.v, ServerNow)
          IN conns' =
               IF ~req.ok THEN Raised(c, req.exc)
               ELSE IF ~out.ret.ok THEN Raised(c, out.ret.exc)
               ELSE [conns EXCEPT ![c].pc = "send", ![c].response = out.ret.v]
    /\ UNCHANGED <<fs, listener, stdin, builder, built, request, result>>

\* req = data.decode("utf-8"); response = self.process_response(req)
Process(c) ==
    /\ conns[c].pc = "process"
    /\ LET req == decode(conns[c].data)
           out == process_response(fs, req.v, ServerNow)
       IN conns' =
            IF ~req.ok THEN Raised(c, req.exc)
            ELSE IF ~out.ret.ok THEN Raised(c, out.ret.exc)
            ELSE [conns EXCEPT ![c].pc = "send", ![c].response = out.ret.v]
    /\ UNCHANGED <<fs, listener, stdin, builder, built, request, result>>

\* client_sock.send(response): send(None) raises TypeError; send() writes
\* some first part of the bytes and returns how many, which the unit drops
Send(c) ==
    /\ conns[c].pc = "send"
    /\ \/ /\ conns[c].response.t = "None"
          /\ conns' = Raised(c, "TypeError")
       \/ /\ conns[c].response.t = "bytes"
          /\ \E n \in {1, Len(conns[c].response.v)} :
                conns' = [conns EXCEPT ![c].pc = "shutdown", ![c].sent = n]
       \/ /\ conns[c].response.t = "bytes"
          /\ conns' = Raised(c, "BrokenPipeError")
    /\ UNCHANGED <<fs, listener, stdin, builder, built, request, result>>

\* client_sock.shutdown(1)
Shutdown(c) ==
    /\ conns[c].pc = "shutdown"
    /\ \/ conns' = [conns EXCEPT ![c].pc = "close", ![c].wr = "shut"]
       \/ conns' = Raised(c, "OSError")
    /\ UNCHANGED <<fs, listener, stdin, builder, built, request, result>>

\* client_sock.close(), and accept_request returns
Close(c) ==
    /\ conns[c].pc = "close"
    /\ conns' = [conns EXCEPT ![c].pc = "done", ![c].sock = "closed",
                              ![c].closer = "unit"]
    /\ UNCHANGED <<fs, listener, stdin, builder, built, request, result>>

\* exit() ending the process, the listener with it, instead of the thread
HandleExceptionEndsProcess(c) ==
    /\ conns[c].pc = "except"
    /\ conns' = [conns EXCEPT ![c].pc = "exited", ![c].exc = ""]
    /\ stdin' = "closed"
    /\ listener' = "failed"
    /\ UNCHANGED <<fs, builder, built, request, result>>

\* print(str(e)); exit(): the site builtin closes sys.stdin and raises
\* SystemExit, which ends the thread it is raised in
HandleException(c) ==
    /\ conns[c].pc = "except"
    /\ conns' = [conns EXCEPT ![c].pc = "exited", ![c].exc = ""]
    /\ stdin' = "closed"
    /\ UNCHANGED <<fs, listener, builder, built, request, result>>

\* The socket object of a unit that has ended is closed when the garbage
\* collector finalizes it, if and when it does
Finalize(c) ==
    /\ conns[c].pc = "exited"
    /\ conns[c].sock = "open"
    /\ conns' = [conns EXCEPT ![c].sock = "closed", ![c].closer = "gc"]
    /\ UNCHANGED <<fs, listener, stdin, builder, built, request, result>>

UnitStep(c) ==
    \/ Recv(c) \/ Process(c) \/ Send(c) \/ Shutdown(c) \/ Close(c)
    \/ HandleException(c)

Next ==
    \/ \E c \in Units : Accept(c)
    \/ \E c \in Units : Spawn(c)
    \/ ListenerFails
    \/ \E c \in Units : UnitStep(c)
    \/ \E c \in Units : Finalize(c)

Spec == Init /\ [][Next]_vars

(***************************************************************************)
(* Reading a request and a built message from outside, as a client or a    *)
(* test does: the message is a status line, header lines "Name: Value",    *)
(* a blank line, the body and a final line terminator.                     *)
(***************************************************************************)
MsgHeadEnd(msg) == FindFrom(msg, NEWLINE \o NEWLINE, 1)
MsgLines(msg) == split(SubSeq(msg, 1, MsgHeadEnd(msg) - 1), NEWLINE)
StatusLine(msg) == MsgLines(msg)[1]
HeaderLines(msg) == Tail(MsgLines(msg))
MsgBody(msg) == SubSeq(msg, MsgHeadEnd(msg) + 4, Len(msg) - 2)
HasHeader(msg, name, value) ==
    \E i \in 1..Len(HeaderLines(msg)) :
        HeaderLines(msg)[i] = name \o <<":", " ">> \o value

\* The values of the headers called name: what follows the first ":" of
\* the line, without the blanks around it
HeaderValues(msg, name) ==
    {strip(SubSeq(HeaderLines(msg)[i], Len(name) + 2, Len(HeaderLines(msg)[i]))) :
        i \in {j \in 1..Len(HeaderLines(msg)) :
                  StartsAt(HeaderLines(msg)[j], 1, name \o <<":">>)}}

\* s ends with pat
EndsWith(s, pat) == Len(pat) <= Len(s) /\ StartsAt(s, Len(s) - Len(pat) + 1, pat)

StatusText(code, reason) == sHTTP11 \o <<" ">> \o code \o <<" ">> \o reason

\* The words of the request line
RequestWords == Words(split(strip(request), NEWLINE)[1])
MethodIs(m) == Len(RequestWords) >= 1 /\ RequestWords[1] = m
\* The path a GET resolves: "./" and the second word without its first symbol
ResolvedPath == Root \o Tail(RequestWords[2])
IsGet == Len(RequestWords) >= 2 /\ MethodIs(sGET)

Ret == result.out.ret
Message == result.out.message
Returned == result.ran /\ Ret.ok /\ Ret.v.t = "bytes"

\* A file's bytes as text mode hands them on: every CRLF and every other CR
\* is one LF
LineEndsAsLF(data) ==
    SelectSeq([i \in 1..Len(data) |->
                 IF data[i] # "\r" THEN data[i]
                 ELSE IF i < Len(data) /\ data[i + 1] = "\n" THEN "DROP"
                 ELSE "\n"], Kept)

(***************************************************************************)
(* C1.  No error raised while a unit handles its connection ends the       *)
(* listening loop or disturbs another unit: every step of a unit, its      *)
(* exception handler included, leaves the listener where it was and every  *)
(* other unit's state as it was, so the listener can still accept and the  *)
(* other units still run their own cycle.                                  *)
(***************************************************************************)
C1_UnitErrorsContained ==
    [][\A c \in Units :
          UnitStep(c) =>
             /\ listener' = listener
             /\ \A d \in Units \ {c} : conns'[d] = conns[d]]_vars

\* A unit has ended in its exception handler, the listener is back in
\* accept, and another unit has sent its whole response and closed
C1_Witness ==
    /\ listener = "accept"
    /\ conns[1].pc = "exited"
    /\ conns[2].pc = "done"
    /\ conns[2].sent = Len(conns[2].response.v)

(***************************************************************************)
(* C2.  In every message build returns, the value of the Content-Length    *)
(* header is the decimal byte length of the builder's content (0 when no   *)
(* content was set).                                                       *)
(***************************************************************************)
C2_ContentLengthIsByteLength ==
    built.ok =>
       HeaderValues(built.v.v, sContentLength) = {str(len(builder.content.v))}

(***************************************************************************)
(* C3.  A request whose first word is neither GET nor POST gets a 405      *)
(* METHOD NOT ALLOWED response with the headers Allow: GET, POST and       *)
(* Connection: close and an empty body, whatever follows the method, also  *)
(* when nothing follows it.                                                *)
(***************************************************************************)
C3_OtherMethodGets405 ==
    (result.ran /\ Len(RequestWords) >= 1 /\ RequestWords[1] \notin {sGET, sPOST})
    => /\ Returned
       /\ StatusLine(Ret.v.v) = StatusText(s405, sNotAllowed)
       /\ HasHeader(Ret.v.v, sAllow, <<"G", "E", "T", ",", " ", "P", "O", "S", "T">>)
       /\ HasHeader(Ret.v.v, sConnection, sClose)
       /\ MsgBody(Ret.v.v) = <<>>

(***************************************************************************)
(* C4.  A GET of an existing regular file that grants read to others is    *)
(* answered 200 OK with the file's bytes as body and the file's size as    *)
(* content length, whatever the file's name.                               *)
(***************************************************************************)
GetsReadableFile ==
    /\ result.ran /\ IsGet
    /\ ResolvedPath \in DOMAIN fs
    /\ fs[ResolvedPath].kind = "file"
    /\ (fs[ResolvedPath].mode \div 4) % 2 = 1

C4_ReadableFileServed ==
    GetsReadableFile
    => /\ Returned
       /\ StatusLine(Ret.v.v) = StatusText(s200, sOK)
       /\ MsgBody(Ret.v.v) = fs[ResolvedPath].data
       /\ len(Message.content.v) = Len(fs[ResolvedPath].data)

(***************************************************************************)
(* C5.  A GET of an existing world-readable file never fails for its       *)
(* extension, and the content type of its 200 response is the table's      *)
(* entry for the extension of the file name, text/plain when the table     *)
(* has none or the name has no extension.                                  *)
(***************************************************************************)
\* The extension of a path: what follows the last "." of its last segment
BaseName(path) ==
    LET parts == split(path, <<"/">>) IN parts[Len(parts)]
NameExtension(path) ==
    LET parts == split(BaseName(path), <<".">>)
    IN IF Len(parts) < 2 THEN NoneV ELSE StrV(parts[Len(parts)])
ExpectedType(path) ==
    LET e == NameExtension(path)
    IN IF e.t = "str" /\ e.v \in DOMAIN mime_types
       THEN mime_types[e.v] ELSE sTextPlain

C5_TypeFromExtension ==
    (GetsReadableFile /\ Ret.exc \notin {"UnicodeDecodeError"})
    => /\ Returned
       /\ StatusLine(Ret.v.v) = StatusText(s200, sOK)
       /\ Message.content_type = StrV(ExpectedType(ResolvedPath))

(***************************************************************************)
(* C6.  A GET whose resolved path does not exist is answered 404 RESOURCE  *)
(* NOT FOUND with Connection: close, content type text/html and the 404    *)
(* page as body; only the 404 page is opened, so no missing path is        *)
(* answered 403 or 200.                                                    *)
(***************************************************************************)
GetsMissingPath == result.ran /\ IsGet /\ ResolvedPath \notin DOMAIN fs

NotFoundResponse ==
    /\ Returned
    /\ StatusLine(Ret.v.v) = StatusText(s404, sNotFound)
    /\ HasHeader(Ret.v.v, sConnection, sClose)
    /\ Message.content_type = StrV(sTextHtml)
    /\ result.out.opened = <<s404html>>

GetsUnreadableFile ==
    /\ result.ran /\ IsGet
    /\ ResolvedPath \in DOMAIN fs
    /\ fs[ResolvedPath].kind = "file"
    /\ (fs[ResolvedPath].mode \div 4) % 2 = 0

ForbiddenResponse ==
    /\ Returned
    /\ StatusLine(Ret.v.v) = StatusText(s403, sForbidden)
    /\ result.out.opened = <<s403html>>

SentValue(i) ==
    LET lines == split(strip(request), NEWLINE)
        piece == split(lines[Len(lines)], <<"&">>)[i]
    IN SubSeq(piece, Len(FieldNames[i]) + 2, Len(piece))

DecodedValue(i) == replace(unquote(SentValue(i)), "+", " ")

ExpectedPage ==
    <<"T0">> \o DecodedValue(1) \o <<"T1">> \o DecodedValue(2)
    \o <<"T2">> \o DecodedValue(3) \o <<"T3">> \o DecodedValue(4)
    \o <<"T4">> \o DecodedValue(5) \o <<"T5">> \o DecodedValue(6)
    \o <<"T6">> \o DecodedValue(7) \o <<"T7">> \o DecodedValue(8)
    \o <<"T8">>

C8_FormEchoed ==
    (result.ran /\ request \in WellFormedPosts)
    => /\ Returned
       /\ StatusLine(Ret.v.v) = StatusText(s200, sOK)
       /\ Message.content_type = StrV(sTextHtml)
       /\ MsgBody(Ret.v.v) = encode(ExpectedPage)

(***************************************************************************)
(* C9.  A POST whose last line has fewer than the eight fields, or a piece *)
(* without "=", is answered with a 400-class response.                     *)
(***************************************************************************)
C9_ShortFormGets4xx ==
    (result.ran /\ request \in ShortPosts)
    => /\ Returned
       /\ StartsAt(StatusLine(Ret.v.v), 1, sHTTP11 \o <<" ", "4">>)

(***************************************************************************)
(* C10.  When accept_request ends, by returning or in its exception        *)
(* handler, the unit has closed its client socket.                         *)
(***************************************************************************)
C10_SocketClosedOnEveryExit ==
    \A c \in Units :
        conns[c].pc \in {"done", "exited"}
        => conns[c].sock = "closed" /\ conns[c].closer = "unit"

(***************************************************************************)
(* C11.  Two GET requests for distinct existing world-readable files,      *)
(* handled by units that run concurrently, are each answered 200 with the  *)
(* content of their own file under every interleaving of the units' steps: *)
(* whatever the other units do, the response a unit holds once it has      *)
(* processed a GET of a served file is the 200 message of that file.       *)
(***************************************************************************)
\* The files of the serving root that a GET is answered 200 for
ServedNames == {nIndex, nPng}
Processed(c) == conns[c].pc \in {"send", "shutdown", "close", "done"}
ServedRequests == [n \in ServedNames |-> encode(GetRequest(n))]
Asks(c, n) == conns[c].data = ServedRequests[n]
OkLine == StatusText(s200, sOK) \o NEWLINE
BlankLine == NEWLINE \o NEWLINE

C11_ConcurrentGetsOwnFile ==
    \A c \in Units : \A n \in ServedNames :
        (Asks(c, n) /\ Processed(c))
        => /\ conns[c].response.t = "bytes"
           /\ StartsAt(conns[c].response.v, 1, OkLine)
           /\ EndsWith(conns[c].response.v,
                       BlankLine \o fs[Root \o n].data \o NEWLINE)
           /\ conns[c].sent <= Len(conns[c].response.v)

\* Two units, each with the response to its own file, both about to send
C11_Witness ==
    /\ Asks(1, nIndex) /\ Asks(2, nPng)
    /\ conns[1].pc = "send" /\ conns[2].pc = "send"
    /\ conns[1].response # conns[2].response

(***************************************************************************)
(* C12.  A successful GET of a file whose extension is jpg, jpeg, png or   *)
(* mp3 returns a body equal byte for byte to the file's bytes, whatever    *)
(* the rest of the name, names with more than one dot included.            *)
(***************************************************************************)
C12_BinaryFileServedAsIs ==
    (/\ GetsReadableFile
     /\ NameExtension(ResolvedPath).t = "str"
     /\ NameExtension(ResolvedPath).v \in binary_type_files
     /\ Returned
     /\ StatusLine(Ret.v.v) = StatusText(s200, sOK))
    => MsgBody(Ret.v.v) = fs[ResolvedPath].data

(***************************************************************************)
(* C13.  When the request text a unit received has a request line without  *)
(* words (no data, or only whitespace), process_response yields no         *)
(* response, the unit sends no bytes, and it goes on to close the          *)
(* connection without any exception being raised.                          *)
(***************************************************************************)
NoWords(c) ==
    /\ decode(conns[c].data).ok
    /\ Words(split(strip(decode(conns[c].data).v), NEWLINE)[1]) = <<>>

C13_NoRequestClosedSilently ==
    \A c \in Units :
        (NoWords(c) /\ conns[c].pc \notin {"free", "accepted", "recv", "process"})
        => /\ conns[c].response.t = "None"
           /\ conns[c].sent = 0
           /\ conns[c].exc # "TypeError"

(***************************************************************************)
(* C14.  Every header line of a built message has the wire form            *)
(* "Name: Value", the name followed by exactly one ": ", so that a client  *)
(* who looks up Content-Type or Server reads the value the builder put.    *)
(***************************************************************************)
\* The line is a name, one ": ", and a value that does not begin with
\* another ":"
OneSeparator(line) ==
    LET k == FindFrom(line, <<":", " ">>, 1)
    IN k > 1 /\ ~StartsAt(line, k + 2, <<":">>)

C14_HeaderLinesNameValue ==
    built.ok =>
       /\ \A i \in 1..Len(HeaderLines(built.v.v)) :
             OneSeparator(HeaderLines(built.v.v)[i])
       /\ HeaderValues(built.v.v, sServer) = {sJacks}

(***************************************************************************)
(* C15.  The bytes build returns are the status line, CRLF, every header   *)
(* followed by CRLF (first the caller's headers in the order they were     *)
(* added, none dropped, merged or overwritten, then Date, Content-Type,    *)
(* Content-Length, Server), one more CRLF, the body bytes and CRLF.        *)
(***************************************************************************)
BuildNames == <<sDate, sContentType, sContentLength, sServer>>

\* The body bytes of a builder: its content, encoded when it is still text
BodyBytes(b) == IF b.content.t = "bytes" THEN b.content.v ELSE encode(b.content.v)

\* A status line, header lines and a body laid out as a message
Layout(status, headers, body) ==
    encode(status) \o encode(NEWLINE)
    \o Flat([i \in 1..Len(headers) |-> encode(headers[i]) \o encode(NEWLINE)])
    \o encode(NEWLINE) \o body \o encode(NEWLINE)

\* add_header keeps what the caller added before and adds one line
HeaderAppended ==
    /\ Len(builder'.headers) = Len(builder.headers) + 1
    /\ SubSeq(builder'.headers, 1, Len(builder.headers)) = builder.headers

\* build puts its four headers after the caller's and lays the message out
BuiltLaidOut ==
    built'.ok =>
       /\ Len(builder'.headers) = Len(builder.headers) + 4
       /\ SubSeq(builder'.headers, 1, Len(builder.headers)) = builder.headers
       /\ \A i \in 1..4 :
             StartsAt(builder'.headers[Len(builder.headers) + i], 1,
                      BuildNames[i] \o <<":">>)
       /\ built'.v.t = "bytes"
       /\ built'.v.v = Layout(builder.status.v, builder'.headers,
                              BodyBytes(builder))

C15_BuiltMessageLayout ==
    [][(AddHeader => HeaderAppended) /\ (Build => BuiltLaidOut)]_vars

\* Built with the same header added twice and a body that is not empty
C15_Witness ==
    /\ built.ok
    /\ Len(builder.headers) = 6
    /\ builder.headers[1] = builder.headers[2]
    /\ BodyBytes(builder) # <<>>

(***************************************************************************)
(* C16.  Whenever the content is empty at build time, never set or set to  *)
(* empty text or bytes, the built message has Content-Length 0 and         *)
(* Content-Type text/plain.  The header lines are read by their name and   *)
(* by what they end with, whatever separates the two.                      *)
(***************************************************************************)
\* Some header line of msg begins with name and ":" and ends with value
HeaderEndsWith(msg, name, value) ==
    \E i \in 1..Len(HeaderLines(msg)) :
        /\ StartsAt(HeaderLines(msg)[i], 1, name \o <<":">>)
        /\ EndsWith(HeaderLines(msg)[i], <<" ">> \o value)

C16_EmptyContentIsTextPlain ==
    (built.ok /\ BodyBytes(builder) = <<>>)
    => /\ HeaderEndsWith(built.v.v, sContentLength, <<"0">>)
       /\ HeaderEndsWith(built.v.v, sContentType, sTextPlain)

(***************************************************************************)
(* C17.  On a connection whose handling produced a response, the unit has  *)
(* written every byte of the response to the client socket before it       *)
(* shuts the socket down, whatever number of bytes a send call accepts.    *)
(***************************************************************************)
C17_WholeResponseSentBeforeShutdown ==
    \A c \in Units :
        (conns[c].pc \in {"shutdown", "close", "done"}
         /\ conns[c].response.t = "bytes")
        => conns[c].sent = Len(conns[c].response.v)

(***************************************************************************)
(* C18.  The listening loop starts one unit per accepted connection and    *)
(* never waits for a unit: whatever the units that are running are doing   *)
(* (blocked in recv, reading a file, sending), the listener in accept can  *)
(* take the next connection, and the listener holding an accepted          *)
(* connection can start its unit; at most one accepted connection is       *)
(* without its unit, the one the listener is about to start.               *)
(***************************************************************************)
NextFree(c) ==
    /\ conns[c].pc = "free"
    /\ \A d \in Units : d < c => conns[d].pc # "free"

C18_ListenerNeverWaits ==
    /\ \A c \in Units :
          (listener = "accept" /\ NextFree(c)) => ENABLED Accept(c)
    /\ \A c \in Units :
          conns[c].pc = "accepted"
          => /\ listener \in {"spawn", "failed"}
             /\ listener = "spawn" => ENABLED Spawn(c)
    /\ Cardinality({c \in Units : conns[c].pc = "accepted"}) <= 1

\* The listener is back in accept with two units it started both still
\* blocked in recv
C18_Witness ==
    /\ listener = "accept"
    /\ conns[1].pc = "recv"
    /\ conns[2].pc = "recv"

(***************************************************************************)
(* C19.  For a request line of at least two words the target handed to     *)
(* the handler is the second word without its leading "/" and otherwise    *)
(* unchanged: a second word that does not begin with "/" loses no          *)
(* character, and ".." segments are passed on as they are, so a GET is     *)
(* answered as get_request answers "./" and that target.                   *)
(***************************************************************************)
ClaimedTarget ==
    IF RequestWords[2][1] = "/" THEN Tail(RequestWords[2]) ELSE RequestWords[2]

C19_TargetIsSecondWordLessSlash ==
    (result.ran /\ IsGet)
    => \E now \in Clock :
          result.out = get_request(fs, ClaimedTarget,
                                   split(strip(request), NEWLINE), now)

====
